---------------------------- MODULE Spec2Model ----------------------------
(***************************************************************************)
(* Cross-validation of a classifier (src/src/index.js): leaveOneOut,       *)
(* leavePOut and kFold drive an external classifier once per split and     *)
(* accumulate a confusion matrix, a correct counter and a total counter.   *)
(*                                                                         *)
(* JavaScript arrays are modelled as sequences; the VALUES stored in the   *)
(* index arrays are the 0-based JavaScript indices, so element j of a      *)
(* JavaScript array arr is arr[j + 1] here.                                *)
(***************************************************************************)
EXTENDS Integers, Sequences, FiniteSets, Bags, TLC

\* ---------------------------------------------------------------- bounds
\* Largest number of samples (features.length, labels.length) for which every
\* label sequence is an input.
MaxN == 3
\* Largest number of samples for which the stub that predicts anything at
\* all is an input.
MaxArbitraryN == 2
\* kFold is also called with MaxN < N <= MaxFoldN samples, on one label
\* sequence for each N.
MaxFoldN == 5
\* kFold is called with k in -MaxNegK..MaxFoldN+1 (k > N, k = 0, k < 0
\* included).
MaxNegK == 2

\* ---------------------------------------------------------------- values
\* Labels that occur in the input, and one more value a classifier may
\* predict although it occurs in no input label.
LabelValues == {"a", "b"}
AlienLabel == "z"
PredictValues == LabelValues \cup {AlienLabel}

Modes == {"leaveOneOut", "leavePOut", "kFold"}
\* The classifier passed in is one of these stubs:
\* "perfect": never raises, predicts the true label of every test sample;
\* "constant": predicts its one label for every test sample, and may raise
\*             in new, in train or in predict;
\* "arbitrary": predicts any label for each test sample, and may raise.
Perfect == [kind |-> "perfect", label |-> "a"]
Constant(v) == [kind |-> "constant", label |-> v]
Arbitrary == [kind |-> "arbitrary", label |-> "a"]
StubsFor(n) ==
    {Perfect} \cup {Constant(v) : v \in PredictValues}
              \cup (IF n <= MaxArbitraryN THEN {Arbitrary} ELSE {})

VARIABLES
    mode, features, labels, p, k, stub,      \* the arguments of the call
    pc,                                      \* position in the call
    distinct, confusionMatrix, stray,        \* label index, matrix, rows whose
                                             \* property "-1" was written (NaN)
    correct, total, N,
    gen,                                     \* leavePOut: subsets not yet yielded
    allIdx, l, current, folds, i,            \* kFold locals
    testIdx, trainIdx,                       \* arguments of validate
    classifier, nbConstructed,               \* current instance, instances built
    predictedLabels,
    result, raised,                          \* returned Result / thrown error
    nbSplits, tested, touched                \* calls of validate, bag of the test
                                             \* sets, indices passed in any split

vars == <<mode, features, labels, p, k, stub, pc, distinct, confusionMatrix,
          stray, correct, total, N, gen, allIdx, l, current, folds, i,
          testIdx, trainIdx, classifier, nbConstructed, predictedLabels,
          result, raised, nbSplits, tested, touched>>

\* ---------------------------------------------------------------- helpers
Range(s) == {s[j] : j \in 1..Len(s)}

SeqsUpTo(S, n) == UNION {[1..m -> S] : m \in 0..n}

\* Array.prototype.indexOf: 0-based first position of v, or -1.
IndexOf(arr, v) ==
    IF v \in Range(arr)
    THEN (CHOOSE j \in 1..Len(arr) :
              arr[j] = v /\ \A h \in 1..(j - 1) : arr[h] # v) - 1
    ELSE -1

\* idx.map(index => arr[index])
Project(arr, idx) == [j \in 1..Len(idx) |-> arr[idx[j] + 1]]

\* arr.splice(start, 1) for start >= 0: removes the element at 0-based
\* position start when there is one, otherwise leaves arr alone.
Splice1(arr, start) ==
    IF start < Len(arr)
    THEN [j \in 1..(Len(arr) - 1) |-> IF j <= start THEN arr[j] ELSE arr[j + 1]]
    ELSE arr

\* arr.slice(0, end): a negative end counts from the end of the array.
Slice0(arr, end) ==
    LET e == IF end < 0
             THEN (IF Len(arr) + end < 0 THEN 0 ELSE Len(arr) + end)
             ELSE (IF end > Len(arr) THEN Len(arr) ELSE end)
    IN  SubSeq(arr, 1, e)

\* allIdx[i] = i for i in 0..n-1
AllIdx(n) == [j \in 1..n |-> j - 1]

\* features[i] is opaque to the program: sample i (0-based) is <<i>>.
FeaturesOf(n) == [j \in 1..n |-> <<j - 1>>]

\* the label sequence a, b, a, b, ... of length n
Alternating(n) == [j \in 1..n |-> IF j % 2 = 1 THEN "a" ELSE "b"]

RECURSIVE Gcd(_, _)
Gcd(a, b) == IF b = 0 THEN a ELSE Gcd(b, a % b)

\* correct / total as a reduced fraction <<num, den>>; 0 / 0 is NaN.
NaN == <<0, 0>>
Accuracy(c, t) == IF t = 0 THEN NaN ELSE <<c \div Gcd(c, t), t \div Gcd(c, t)>>

NoResult == [confusionMatrix |-> <<>>, accuracy |-> NaN, labels |-> <<>>,
             nbPrediction |-> -1]
NoInstance == [id |-> 0, calls |-> <<>>]

\* ---------------------------------------------------------------- pure parts
RECURSIVE AddAll(_, _, _)
AddAll(s, arr, j) ==
    IF j > Len(arr) THEN s
    ELSE AddAll(IF arr[j] \in Range(s) THEN s ELSE Append(s, arr[j]), arr, j + 1)

\* new Set() filled in array order, then Array.from: first-occurrence order.
getDistinct(arr) == AddAll(<<>>, arr, 1)

initMatrix(rows, columns) == [r \in 1..rows |-> [c \in 1..columns |-> 0]]

\* for (i = testIdx.length - 1; i >= 0; i--) trainIdx.splice(testIdx[i], 1)
RECURSIVE SpliceOut(_, _, _)
SpliceOut(train, test, j) ==
    IF j < 0 THEN train
    ELSE SpliceOut(Splice1(train, test[j + 1]), test, j - 1)

LeaveOutTrain(n, test) == SpliceOut(AllIdx(n), test, Len(test) - 1)

\* Math.floor(N / k): N / 0 is Infinity (N > 0) or NaN (N = 0), neither a
\* finite number; fin tells whether the value is finite.
FloorDiv(n, d) ==
    IF d = 0 THEN [fin |-> FALSE, val |-> 0]
    ELSE IF d > 0 THEN [fin |-> TRUE, val |-> n \div d]
    ELSE [fin |-> TRUE, val |-> 0 - ((n + (0 - d) - 1) \div (0 - d))]

\* current.length === l
LengthIs(arr, len) == len.fin /\ Len(arr) = len.val

\* trainIdx = concatenation of folds[j], j # i, in fold order (i 0-based)
RECURSIVE OtherFolds(_, _, _)
OtherFolds(fs, skip, j) ==
    IF j >= Len(fs) THEN <<>>
    ELSE (IF j # skip THEN fs[j + 1] ELSE <<>>) \o OtherFolds(fs, skip, j + 1)

\* One pass of the loop of validate over predictedLabels: acc holds the
\* matrix, the rows whose property "-1" was written, and the correct count.
\* confusionMatrix[r][-1]++ writes NaN to the property "-1" of row r and
\* touches no cell.
TallyOne(acc, dist, truth, pred) ==
    LET r == IndexOf(dist, truth)
        c == IndexOf(dist, pred)
    IN  [cm |-> IF c >= 0
                THEN [acc.cm EXCEPT ![r + 1][c + 1] = @ + 1]
                ELSE acc.cm,
         stray |-> IF c >= 0 THEN acc.stray ELSE acc.stray \cup {r},
         correct |-> IF truth = pred THEN acc.correct + 1 ELSE acc.correct]

RECURSIVE Tally(_, _, _, _, _)
Tally(acc, dist, truths, predicted, j) ==
    IF j > Len(predicted) THEN acc
    ELSE Tally(TallyOne(acc, dist, truths[j], predicted[j]),
               dist, truths, predicted, j + 1)

\* The combination generator combinations(p, N) of the package
\* ml-combinations: every p-subset of 0..N-1 exactly once, in an order and
\* with an arrangement of the indices inside a subset that are its own.
Combinations(m, n) == {S \in SUBSET (0..(n - 1)) : Cardinality(S) = m}

Arrangements(S) ==
    {s \in [1..Cardinality(S) -> S] : \A x \in S : \E j \in 1..Cardinality(S) : s[j] = x}

\* ---------------------------------------------------------------- state
testFeatures == Project(features, testIdx)
trainFeatures == Project(features, trainIdx)
testLabels == Project(labels, testIdx)
trainLabels == Project(labels, trainIdx)

Init ==
    /\ mode \in Modes
    /\ \E n \in 0..(IF mode = "kFold" THEN MaxFoldN ELSE MaxN) :
          features = FeaturesOf(n)
    /\ labels \in IF Len(features) <= MaxN
                  THEN SeqsUpTo(LabelValues, MaxN)
                  ELSE {Alternating(Len(features))}
    /\ stub \in StubsFor(Len(features))
    \* leavePOut is called inside the contract of the generator, 1 <= p <= N
    /\ p \in IF mode = "leavePOut"
             THEN (IF Len(features) = Len(labels) THEN 1..Len(features) ELSE 1..MaxN)
             ELSE {0}
    /\ mode = "leaveOneOut" /\ Len(features) = Len(labels) => Len(features) >= 1
    /\ k \in IF mode = "kFold" THEN (0 - MaxNegK)..(MaxFoldN + 1) ELSE {0}
    /\ pc = "call"
    /\ distinct = <<>> /\ confusionMatrix = <<>> /\ stray = {}
    /\ correct = 0 /\ total = 0 /\ N = 0
    /\ gen = {}
    /\ allIdx = <<>> /\ l = FloorDiv(0, 1) /\ current = <<>> /\ folds = <<>> /\ i = 0
    /\ testIdx = <<>> /\ trainIdx = <<>>
    /\ classifier = NoInstance /\ nbConstructed = 0
    /\ predictedLabels = <<>>
    /\ result = NoResult /\ raised = "none"
    /\ nbSplits = 0 /\ tested = EmptyBag /\ touched = {}

inputs == <<mode, features, labels, k, stub>>
matrixVars == <<distinct, confusionMatrix, stray, correct, total, N>>
kFoldVars == <<allIdx, l, current, folds, i>>
splitVars == <<testIdx, trainIdx, nbSplits, tested, touched>>
stubVars == <<classifier, nbConstructed, predictedLabels>>
endVars == <<result, raised>>

\* faulty variant: the lengths are compared one way only
CheckOneSided ==
    Len(features) < Len(labels)

\* check(features, labels): whether it throws the shape error
check ==
    Len(features) # Len(labels)

\* faulty variant: the error is recorded and the loop goes on to the next split
ThrowAndContinue(err) ==
    /\ raised' = err
    /\ pc' = IF err = "shape" THEN "thrown"
             ELSE IF mode = "kFold" THEN "forFolds" ELSE "forOf"
    /\ UNCHANGED result

Throw(err) ==
    /\ raised' = err
    /\ pc' = "thrown"
    /\ UNCHANGED result

\* return {confusionMatrix, accuracy: correct / total, labels: distinct,
\*         nbPrediction: total}
Return ==
    /\ result' = [confusionMatrix |-> confusionMatrix,
                  accuracy |-> Accuracy(correct, total),
                  labels |-> distinct,
                  nbPrediction |-> total]
    /\ pc' = "returned"
    /\ UNCHANGED raised

\* check, getDistinct, initMatrix, correct = 0, total = 0, N
Prologue ==
    /\ distinct' = getDistinct(labels)
    /\ confusionMatrix' = initMatrix(Len(getDistinct(labels)), Len(getDistinct(labels)))
    /\ correct' = 0
    /\ total' = 0
    /\ N' = Len(features)
    /\ UNCHANGED stray

\* validate(Classifier, features, labels, classifierOptions, testIdx,
\*          trainIdx, confusionMatrix, distinct) is entered
CallValidate(test, train) ==
    /\ testIdx' = test
    /\ trainIdx' = train
    /\ nbSplits' = nbSplits + 1
    /\ tested' = tested (+) SetToBag({Range(test)})
    /\ touched' = touched \cup Range(test) \cup Range(train)
    /\ pc' = "new"

\* CV.leaveOneOut: return CV.leavePOut(..., 1)
LeaveOneOut ==
    /\ pc = "call" /\ mode = "leaveOneOut"
    /\ p' = 1
    /\ pc' = "leavePOut"
    /\ UNCHANGED <<inputs, matrixVars, gen, kFoldVars, splitVars, stubVars, endVars>>

\* CV.leavePOut up to the for-of loop
LeavePOutBegin ==
    /\ \/ pc = "call" /\ mode = "leavePOut"
       \/ pc = "leavePOut"
    /\ IF check
       THEN /\ Throw("shape")
            /\ UNCHANGED <<matrixVars, gen>>
       ELSE /\ Prologue
            /\ gen' = Combinations(p, Len(features))
            /\ pc' = "forOf"
            /\ UNCHANGED endVars
    /\ UNCHANGED <<inputs, p, kFoldVars, splitVars, stubVars>>

\* one iteration of for (const testIdx of gen), up to the call of validate
LeavePOutNext ==
    /\ pc = "forOf"
    /\ \E S \in gen : \E test \in Arrangements(S) :
          /\ gen' = gen \ {S}
          /\ CallValidate(test, LeaveOutTrain(N, test))
    /\ UNCHANGED <<inputs, p, matrixVars, kFoldVars, stubVars, endVars>>

LeavePOutReturn ==
    /\ pc = "forOf"
    /\ gen = {}
    /\ Return
    /\ UNCHANGED <<inputs, p, matrixVars, gen, kFoldVars, splitVars, stubVars>>

\* CV.kFold up to the while loop
KFoldBegin ==
    /\ pc = "call" /\ mode = "kFold"
    /\ IF check
       THEN /\ Throw("shape")
            /\ UNCHANGED <<matrixVars, kFoldVars>>
       ELSE /\ Prologue
            /\ allIdx' = AllIdx(Len(features))
            /\ l' = FloorDiv(Len(features), k)
            /\ current' = <<>>
            /\ folds' = <<>>
            /\ pc' = "while"
            /\ UNCHANGED <<i, endVars>>
    /\ UNCHANGED <<inputs, p, gen, splitVars, stubVars>>

\* faulty variant: the fold is closed as soon as it has at least l indices
CloseFoldAtLeast(cur, len) == len.fin /\ Len(cur) >= len.val

\* the fold that receives the picked index: closed when it reaches length l
CloseFold(cur, len) == LengthIs(cur, len)

\* one iteration of while (allIdx.length): randi is any position of allIdx
KFoldPick ==
    /\ pc = "while"
    /\ \E randi \in 0..(Len(allIdx) - 1) :
          LET cur == Append(current, allIdx[randi + 1])
          IN  /\ allIdx' = Splice1(allIdx, randi)
              /\ IF CloseFold(cur, l)
                 THEN folds' = Append(folds, cur) /\ current' = <<>>
                 ELSE folds' = folds /\ current' = cur
    /\ UNCHANGED <<inputs, p, pc, matrixVars, gen, l, i, splitVars, stubVars, endVars>>

\* faulty variant: the folds are not cut down to the first k
FinalFoldsUnsliced(fs, cur, kk) ==
    IF Len(cur) # 0 THEN Append(fs, cur) ELSE fs

\* if (current.length) folds.push(current); folds = folds.slice(0, k)
FinalFolds(fs, cur, kk) ==
    Slice0(IF Len(cur) # 0 THEN Append(fs, cur) ELSE fs, kk)

KFoldSlice ==
    /\ pc = "while"
    /\ Len(allIdx) = 0
    /\ folds' = FinalFolds(folds, current, k)
    /\ i' = 0
    /\ pc' = "forFolds"
    /\ UNCHANGED <<inputs, p, matrixVars, gen, allIdx, l, current, splitVars,
                   stubVars, endVars>>

\* one iteration of for (i = 0; i < folds.length; i++), up to validate
KFoldNext ==
    /\ pc = "forFolds"
    /\ i < Len(folds)
    /\ CallValidate(folds[i + 1], OtherFolds(folds, i, 0))
    /\ UNCHANGED <<inputs, p, matrixVars, gen, kFoldVars, stubVars, endVars>>

KFoldReturn ==
    /\ pc = "forFolds"
    /\ ~(i < Len(folds))
    /\ Return
    /\ UNCHANGED <<inputs, p, matrixVars, gen, kFoldVars, splitVars, stubVars>>

\* ---------------------------------------------------------------- validate
\* faulty variant: one instance is built for the first split and used by all
NewInstanceReused(n) ==
    IF n = 0 THEN [id |-> 1, calls |-> <<>>] ELSE classifier

\* var classifier = new Classifier(classifierOptions)
NewInstance(n) == [id |-> n + 1, calls |-> <<>>]

Construct ==
    /\ pc = "new"
    /\ classifier' = NewInstance(nbConstructed)
    /\ nbConstructed' = nbConstructed + 1
    /\ pc' = "train"
    /\ UNCHANGED <<inputs, p, matrixVars, gen, kFoldVars, splitVars,
                   predictedLabels, endVars>>

\* classifier.train(trainFeatures, trainLabels)
TrainCall(c, f, t) == [c EXCEPT !.calls = Append(@, <<"train", f, t>>)]

Train ==
    /\ pc = "train"
    /\ classifier' = TrainCall(classifier, trainFeatures, trainLabels)
    /\ pc' = "predict"
    /\ UNCHANGED <<inputs, p, matrixVars, gen, kFoldVars, splitVars,
                   nbConstructed, predictedLabels, endVars>>

\* var predictedLabels = classifier.predict(testFeatures): one label per
\* test sample (the precondition on the collaborator)
PredictCall(c, f) == [c EXCEPT !.calls = Append(@, <<"predict", f, <<>>>>)]

Predictions ==
    CASE stub.kind = "perfect" -> {testLabels}
      [] stub.kind = "constant" -> {[j \in 1..Len(testIdx) |-> stub.label]}
      [] stub.kind = "arbitrary" -> [1..Len(testIdx) -> PredictValues]

Predict ==
    /\ pc = "predict"
    /\ classifier' = PredictCall(classifier, testFeatures)
    /\ predictedLabels' \in Predictions
    /\ pc' = "tally"
    /\ UNCHANGED <<inputs, p, matrixVars, gen, kFoldVars, splitVars,
                   nbConstructed, endVars>>

\* new Classifier, train or predict throws: nothing catches it
Raise(at) ==
    /\ pc = at
    /\ stub.kind # "perfect"
    /\ Throw("classifier")
    /\ UNCHANGED <<inputs, p, matrixVars, gen, kFoldVars, splitVars, stubVars>>

ConstructRaises == Raise("new")
TrainRaises == Raise("train")
PredictRaises == Raise("predict")

\* faulty variant: validate counts the split, not its test samples
ResTotalOne == IF Len(testIdx) = 0 THEN 0 ELSE 1

\* what validate returns as total: testIdx.length
ResTotal == Len(testIdx)

\* total += res.total
AddTotal(t, r) == t + r

\* faulty variant: correct = res.correct
AddCorrectAssigned(c, r) == r

\* correct += res.correct
AddCorrect(c, r) == c + r

\* the loop over predictedLabels, return {total, correct}, and in the
\* caller total += res.total; correct += res.correct (and i++ in kFold)
Accumulate ==
    /\ pc = "tally"
    /\ LET acc == Tally([cm |-> confusionMatrix, stray |-> stray, correct |-> 0],
                        distinct, testLabels, predictedLabels, 1)
       IN  /\ confusionMatrix' = acc.cm
           /\ stray' = acc.stray
           /\ correct' = AddCorrect(correct, acc.correct)
           /\ total' = AddTotal(total, ResTotal)
    /\ IF mode = "kFold"
       THEN i' = i + 1 /\ pc' = "forFolds"
       ELSE i' = i /\ pc' = "forOf"
    /\ UNCHANGED <<inputs, p, distinct, N, gen, allIdx, l, current, folds,
                   splitVars, stubVars, endVars>>

Next ==
    \/ LeaveOneOut
    \/ LeavePOutBegin
    \/ LeavePOutNext
    \/ LeavePOutReturn
    \/ KFoldBegin
    \/ KFoldPick
    \/ KFoldSlice
    \/ KFoldNext
    \/ KFoldReturn
    \/ Construct
    \/ ConstructRaises
    \/ Train
    \/ TrainRaises
    \/ Predict
    \/ PredictRaises
    \/ Accumulate

Spec == Init /\ [][Next]_vars

\* ---------------------------------------------------------------- claims
InValidate == pc \in {"new", "train", "predict", "tally"}
LeaveOut == mode \in {"leaveOneOut", "leavePOut"}

\* the elements of a set of numbers in ascending order
RECURSIVE Ascending(_)
Ascending(S) ==
    IF S = {} THEN <<>>
    ELSE LET m == CHOOSE x \in S : \A y \in S : x <= y
         IN  <<m>> \o Ascending(S \ {m})

\* the binomial coefficient C(n, m), by Pascal's rule
RECURSIVE Binomial(_, _)
Binomial(n, m) ==
    IF m = 0 THEN 1
    ELSE IF n = 0 THEN 0
    ELSE Binomial(n - 1, m - 1) + Binomial(n - 1, m)

RECURSIVE SumSeq(_)
SumSeq(s) == IF s = <<>> THEN 0 ELSE Head(s) + SumSeq(Tail(s))

RowSum(cm, r) == SumSeq(cm[r])
CellSum(cm) == SumSeq([r \in 1..Len(cm) |-> RowSum(cm, r)])

\* how many test samples, over all splits so far, have the true label lab
RECURSIVE OccurrencesIn(_, _)
OccurrencesIn(sets, lab) ==
    IF sets = {} THEN 0
    ELSE LET S == CHOOSE x \in sets : TRUE
         IN  CopiesIn(S, tested) * Cardinality({x \in S : labels[x + 1] = lab})
             + OccurrencesIn(sets \ {S}, lab)

TestOccurrences(lab) == OccurrencesIn(BagToSet(tested), lab)

\* C1: in every split of leavePOut (and leaveOneOut), whatever the order of
\* the indices inside the yielded test sequence, the train sequence passed
\* to validate is {0..N-1} minus the test indices in ascending order: N - p
\* elements, none shared with the test sequence.
C1_TrainIsComplement ==
    LeaveOut /\ InValidate =>
        /\ trainIdx = Ascending((0..(N - 1)) \ Range(testIdx))
        /\ Len(trainIdx) = N - p
        /\ Range(trainIdx) \cap Range(testIdx) = {}

\* C2: a completed leavePOut has run exactly C(N, p) splits, every p-subset
\* of 0..N-1 was the test set of exactly one split, and nbPrediction is
\* C(N, p) * p; for leaveOneOut that is N splits, nbPrediction = N and every
\* index tested exactly once.
C2_LeavePOutCounts ==
    LeaveOut /\ pc = "returned" =>
        /\ nbSplits = Binomial(N, p)
        /\ BagCardinality(tested) = Binomial(N, p)
        /\ \A S \in SUBSET (0..(N - 1)) :
              CopiesIn(S, tested) = IF Cardinality(S) = p THEN 1 ELSE 0
        /\ result.nbPrediction = Binomial(N, p) * p
        /\ mode = "leaveOneOut" =>
              /\ p = 1
              /\ nbSplits = N
              /\ result.nbPrediction = N
              /\ \A x \in 0..(N - 1) : CopiesIn({x}, tested) = 1

C2_Witness ==
    /\ mode = "leavePOut" /\ pc = "returned"
    /\ N = 3 /\ p = 2 /\ nbSplits = 3 /\ result.nbPrediction = 6

\* C3: kFold with 1 <= k <= N has, once the indices are distributed, exactly
\* k folds of floor(N / k) indices each, pairwise disjoint; every split tests
\* fold i and trains on the concatenation of the other folds; a completed run
\* made k splits, tested each fold once, touched exactly k * floor(N / k)
\* indices (the leftover ones are in no split), and nbPrediction is
\* k * floor(N / k).
C3_KFoldPartition ==
    mode = "kFold" /\ 1 <= k /\ k <= Len(features)
    /\ pc \in {"forFolds", "new", "train", "predict", "tally", "returned"} =>
        /\ Len(folds) = k
        /\ \A f \in 1..Len(folds) :
              /\ Len(folds[f]) = N \div k
              /\ Cardinality(Range(folds[f])) = N \div k
              /\ Range(folds[f]) \subseteq 0..(N - 1)
        /\ \A f, g \in 1..Len(folds) :
              f # g => Range(folds[f]) \cap Range(folds[g]) = {}
        /\ InValidate =>
              /\ i < k
              /\ testIdx = folds[i + 1]
              /\ Len(trainIdx) = (k - 1) * (N \div k)
              /\ Range(trainIdx) =
                    UNION {Range(folds[f]) : f \in (1..Len(folds)) \ {i + 1}}
              /\ Range(testIdx) \cap Range(trainIdx) = {}
        /\ touched \subseteq UNION {Range(folds[f]) : f \in 1..Len(folds)}
        /\ pc = "returned" =>
              /\ nbSplits = k
              /\ BagCardinality(tested) = k
              /\ \A f \in 1..Len(folds) : CopiesIn(Range(folds[f]), tested) = 1
              /\ Cardinality(touched) = k * (N \div k)
              /\ Cardinality((0..(N - 1)) \ touched) = N - k * (N \div k)
              /\ result.nbPrediction = k * (N \div k)

\* a run that dropped a partial fold: N = 5, k = 2, one index in no split
C3_Witness ==
    /\ mode = "kFold" /\ pc = "returned"
    /\ N = 5 /\ k = 2 /\ nbSplits = 2
    /\ Cardinality((0..(N - 1)) \ touched) = 1

\* C4: after each completed split the cells of the confusion matrix sum to
\* the running total of predictions, whatever labels the classifier
\* predicted; in the Result the cells sum to nbPrediction and row i sums to
\* the number of test occurrences of labels[i].
C4_CellsSumToTotal ==
    /\ pc \in {"forOf", "forFolds"} => CellSum(confusionMatrix) = total
    /\ pc = "returned" =>
          /\ CellSum(result.confusionMatrix) = result.nbPrediction
          /\ \A r \in 1..Len(result.labels) :
                RowSum(result.confusionMatrix, r) = TestOccurrences(result.labels[r])

\* C5: when features and labels differ in length the call ends in the shape
\* error before any split: no classifier is constructed, train and predict
\* are never called, validate is never entered and no Result is returned.
C5_ShapeError ==
    Len(features) # Len(labels) =>
        /\ pc \in {"call", "leavePOut", "thrown"}
        /\ pc = "thrown" => raised = "shape"
        /\ nbConstructed = 0
        /\ classifier = NoInstance
        /\ nbSplits = 0
        /\ gen = {} /\ folds = <<>>
        /\ result = NoResult

C5_Witness ==
    /\ Len(features) = 3 /\ Len(labels) = 2
    /\ pc = "thrown" /\ raised = "shape"

\* C6: kFold with k < 1 ends in a parameter error: it never returns a
\* Result.
C6_InvalidKRejected ==
    mode = "kFold" /\ k < 1 => pc # "returned" /\ result = NoResult

\* C7: once the classifier has raised, the call has ended in that error:
\* there is no Result, and nothing happens afterwards (no later split, no
\* further instance, no retry).
C7_RaiseAborts ==
    /\ [](raised = "classifier" => pc = "thrown" /\ result = NoResult)
    /\ [][raised = "classifier" => UNCHANGED vars]_vars

\* the classifier raised in a split after the first, with cells incremented
C7_Witness ==
    /\ raised = "classifier" /\ pc = "thrown"
    /\ nbSplits >= 2 /\ total >= 1 /\ CellSum(confusionMatrix) >= 1
    /\ result = NoResult

\* C8: with the perfect stub a completed run that made a prediction has
\* accuracy 1 (correct = total), every off-diagonal cell zero, and diagonal
\* cell [r][r] equal to the number of test occurrences of labels[r].
C8_PerfectStub ==
    stub.kind = "perfect" /\ pc = "returned" /\ result.nbPrediction >= 1 =>
        /\ result.accuracy = <<1, 1>>
        /\ correct = total
        /\ \A r, c \in 1..Len(result.labels) :
              result.confusionMatrix[r][c] =
                 IF r = c THEN TestOccurrences(result.labels[r]) ELSE 0

C8_Witness ==
    /\ stub.kind = "perfect" /\ pc = "returned"
    /\ result.nbPrediction >= 4 /\ Len(result.labels) = 2
    /\ result.confusionMatrix[2][2] >= 2

\* C9: each split goes construct, train, predict, accumulate on an instance
\* of its own: the instance in use is the one constructed for the current
\* split, it has received train(projected train features, projected train
\* labels) once before predict(projected test features) once, and the
\* number of instances constructed equals the number of splits.
C9_Lifecycle ==
    LET trainCall == <<"train", [j \in 1..Len(trainIdx) |-> <<trainIdx[j]>>],
                       [j \in 1..Len(trainIdx) |-> labels[trainIdx[j] + 1]]>>
        predictCall == <<"predict", [j \in 1..Len(testIdx) |-> <<testIdx[j]>>], <<>>>>
    IN  /\ pc = "new" => nbConstructed = nbSplits - 1
        /\ pc \in {"train", "predict", "tally", "forOf", "forFolds", "returned"} =>
              nbConstructed = nbSplits
        /\ classifier.id = nbConstructed
        /\ pc = "train" => classifier.calls = <<>>
        /\ pc = "predict" => classifier.calls = <<trainCall>>
        /\ pc = "tally" \/ (pc \in {"forOf", "forFolds", "returned"} /\ nbSplits >= 1) =>
              classifier.calls = <<trainCall, predictCall>>

C9_Witness ==
    /\ pc = "tally" /\ nbSplits = 3 /\ nbConstructed = 3
    /\ Len(trainIdx) = 2 /\ Len(classifier.calls) = 2

=============================================================================
